---------------------------- MODULE Spec2Model ----------------------------
(***************************************************************************)
(* Model of the mojibake repair scripts.                                   *)
(*                                                                         *)
(*   wallet/fix_encoding.py        table substitution + regex residual     *)
(*                                 pass over index.html                    *)
(*   public/wallet/fix_all_files.py  batch loop over *.js, *.html, *.css   *)
(*                                                                         *)
(* A str is a sequence of Unicode code points (naturals); a bytes object   *)
(* is a sequence of naturals below 256.                                    *)
(***************************************************************************)
EXTENDS Integers, Sequences, FiniteSets, TLC

(***************************************************************************)
(* Bounds of the model.                                                    *)
(***************************************************************************)
\* number of fragments concatenated into the content of index.html
MaxTokens == 3
\* number of times the fix_encoding.py script is run on the same file
MaxRuns == 2
\* number of characters following the marker in a fragment handed to the
\* re-decode heuristic
MaxFragLen == 3
\* number of files matched by the globs of fix_all_files.py
NumFiles == 3

(***************************************************************************)
(* Characters.                                                             *)
(***************************************************************************)
\* 'Ã' (U+00C3), the first character of the pattern and the counted marker
Marker == 195
\* the longest run of class characters the pattern takes after the marker
MaxRun == 20

\* \s of a str pattern: the characters for which str.isspace() holds
IsSpace(c) ==
  \/ c \in 9..13
  \/ c \in 28..32
  \/ c \in {133, 160, 5760, 8232, 8233, 8239, 8287, 12288}
  \/ c \in 8192..8202

\* the character class [^\s<>]
InClass(c) == ~IsSpace(c) /\ c \notin {60, 62}

(***************************************************************************)
(* Codecs: str.encode('latin-1'), str.encode('cp1252'),                    *)
(* bytes.decode('utf-8').                                                  *)
(***************************************************************************)
Latin1Encodable(c) == c <= 255

\* the characters cp1252 maps to the bytes 0x80..0x9F
Cp1252High ==
  <<8364, 0, 8218, 402, 8222, 8230, 8224, 8225, 710, 8240, 352, 8249, 338,
    0, 381, 0, 0, 8216, 8217, 8220, 8221, 8226, 8211, 8212, 732, 8482, 353,
    8250, 339, 0, 382, 376>>

Cp1252Encodable(c) ==
  \/ c <= 127
  \/ c \in 160..255
  \/ \E i \in 1..32 : Cp1252High[i] = c /\ c # 0

Cp1252Byte(c) ==
  IF c <= 255 THEN c
  ELSE 127 + (CHOOSE i \in 1..32 : Cp1252High[i] = c)

Latin1Ok(s) == \A i \in 1..Len(s) : Latin1Encodable(s[i])
Latin1Encode(s) == s

Cp1252Ok(s) == \A i \in 1..Len(s) : Cp1252Encodable(s[i])
Cp1252Encode(s) == [i \in 1..Len(s) |-> Cp1252Byte(s[i])]

IsCont(b) == b \in 128..191

\* length of the UTF-8 sequence a lead byte announces, 0 for an invalid lead
Utf8SeqLen(b) ==
  IF b <= 127 THEN 1
  ELSE IF b \in 194..223 THEN 2
  ELSE IF b \in 224..239 THEN 3
  ELSE IF b \in 240..244 THEN 4
  ELSE 0

\* is the sequence of n bytes at position i well formed (strict UTF-8: no
\* overlong forms, no surrogates, nothing above U+10FFFF)
Utf8SeqOk(b, i, n) ==
  /\ n > 0
  /\ i + n - 1 <= Len(b)
  /\ \A j \in (i + 1)..(i + n - 1) : IsCont(b[j])
  /\ (b[i] = 224) => b[i + 1] >= 160
  /\ (b[i] = 237) => b[i + 1] <= 159
  /\ (b[i] = 240) => b[i + 1] >= 144
  /\ (b[i] = 244) => b[i + 1] <= 143

Utf8CodePoint(b, i, n) ==
  IF n = 1 THEN b[i]
  ELSE IF n = 2 THEN (b[i] % 32) * 64 + (b[i + 1] % 64)
  ELSE IF n = 3 THEN (b[i] % 16) * 4096 + (b[i + 1] % 64) * 64
                     + (b[i + 2] % 64)
  ELSE (b[i] % 8) * 262144 + (b[i + 1] % 64) * 4096
       + (b[i + 2] % 64) * 64 + (b[i + 3] % 64)

RECURSIVE Utf8OkFrom(_, _)
Utf8OkFrom(b, i) ==
  IF i > Len(b) THEN TRUE
  ELSE LET n == Utf8SeqLen(b[i])
       IN  Utf8SeqOk(b, i, n) /\ Utf8OkFrom(b, i + n)

RECURSIVE Utf8DecodeFrom(_, _)
Utf8DecodeFrom(b, i) ==
  IF i > Len(b) THEN << >>
  ELSE LET n == Utf8SeqLen(b[i])
       IN  <<Utf8CodePoint(b, i, n)>> \o Utf8DecodeFrom(b, i + n)

\* bytes.decode('utf-8') succeeds
Utf8Ok(b) == Utf8OkFrom(b, 1)
\* its result when it does
Utf8Decode(b) == Utf8DecodeFrom(b, 1)

(***************************************************************************)
(* wallet/fix_encoding.py                                                  *)
(***************************************************************************)
\* the dict literal, in insertion order
replacements ==
  <<
    \* line 13: Cheese emoji
    [bad |-> <<195, 402, 194, 176, 195, 8230, 194, 184, 195, 8218, 194, 167, 195, 162, 226, 8364, 353, 194, 172>>,
     good |-> <<129472>>],
    \* line 15: Green circle
    [bad |-> <<195, 402, 194, 176, 195, 8230, 194, 184, 195, 8230, 194, 184, 195, 8218, 194, 162>>,
     good |-> <<128994>>],
    \* line 17: Red circle
    [bad |-> <<195, 402, 194, 176, 195, 8230, 194, 184, 195, 162, 226, 8218, 172, 194, 195, 8218, 194, 180>>,
     good |-> <<128308>>],
    \* line 19: Money bag
    [bad |-> <<195, 402, 194, 176, 195, 8230, 194, 184, 195, 162, 226, 8218, 172, 226, 8222, 162, 195, 8218, 194, 176>>,
     good |-> <<128176>>],
    \* line 21: Credit card
    [bad |-> <<195, 402, 194, 176, 195, 8230, 194, 184, 195, 162, 226, 8218, 172, 226, 8222, 162, 195, 8218, 194, 179>>,
     good |-> <<128179>>],
    \* line 23: Globe
    [bad |-> <<195, 402, 194, 176, 195, 8230, 194, 184, 195, 8230, 226, 8364, 8482, 195, 8218, 194>>,
     good |-> <<127760>>],
    \* line 25: Blue circle
    [bad |-> <<195, 402, 194, 176, 195, 8230, 194, 184, 195, 162, 226, 8218, 172, 194, 195, 8218, 194, 181>>,
     good |-> <<128309>>],
    \* line 27: Diamond/gem
    [bad |-> <<195, 402, 194, 176, 195, 8230, 194, 184, 195, 162, 226, 8218, 172, 226, 8222, 162, 195, 8230, 194, 189>>,
     good |-> <<128142>>],
    \* line 29: Bank
    [bad |-> <<195, 402, 194, 176, 195, 8230, 194, 184, 195, 8218, 194, 195, 8218, 194, 166>>,
     good |-> <<127974>>],
    \* line 31: Lock
    [bad |-> <<195, 402, 194, 176, 195, 8230, 194, 184, 195, 162, 226, 8218, 172, 194, 195, 8230, 226, 8364, 8482>>,
     good |-> <<128274>>],
    \* line 33: Bridge
    [bad |-> <<195, 402, 194, 176, 195, 8230, 194, 184, 195, 8230, 226, 8364, 8482, 195, 162, 226, 8218, 172, 194, 176>>,
     good |-> <<127753>>],
    \* line 35: Plus sign
    [bad |-> <<195, 402, 194, 162, 195, 8230, 194, 190, 195, 162, 226, 8218, 172, 194, 162>>,
     good |-> <<10133>>],
    \* line 37: Money with wings
    [bad |-> <<195, 402, 194, 176, 195, 8230, 194, 184, 195, 162, 226, 8218, 172, 226, 8222, 162, 195, 8218, 194, 184>>,
     good |-> <<128184>>],
    \* line 39: Warning
    [bad |-> <<195, 402, 194, 162, 195, 8230, 194, 161, 195, 8218, 194, 32, 195, 402, 194, 175, 195, 8218, 194, 184, 195, 8218, 194>>,
     good |-> <<9888, 65039>>],
    \* line 41: Gear
    [bad |-> <<195, 402, 194, 162, 195, 8230, 194, 161, 195, 162, 226, 8364, 382, 194, 162, 195, 402, 194, 175, 195, 8218, 194, 184, 195, 8218, 194>>,
     good |-> <<9881, 65039>>],
    \* line 43: Key
    [bad |-> <<195, 402, 194, 176, 195, 8230, 194, 184, 195, 162, 226, 8218, 172, 194, 195, 162, 226, 8218, 172, 203, 339>>,
     good |-> <<128272>>],
    \* line 45: Inbox
    [bad |-> <<195, 402, 194, 176, 195, 8230, 194, 184, 195, 162, 226, 8218, 172, 197, 34, 195, 8218, 194, 165>>,
     good |-> <<128229>>],
    \* line 47: Unlock
    [bad |-> <<195, 402, 194, 176, 195, 8230, 194, 184, 195, 162, 226, 8218, 172, 194, 195, 162, 226, 8218, 172, 226, 8222, 162>>,
     good |-> <<128275>>],
    \* line 49: Trash
    [bad |-> <<195, 402, 194, 176, 195, 8230, 194, 184, 195, 162, 226, 8218, 172, 226, 8364, 195, 162, 226, 8218, 172, 203, 339, 195, 402, 194, 175, 195, 8218, 194, 184, 195, 8218, 194>>,
     good |-> <<128465, 65039>>],
    \* line 51: Chart
    [bad |-> <<195, 402, 194, 176, 195, 8230, 194, 184, 195, 162, 226, 8218, 172, 197, 34, 195, 8230, 194, 32>>,
     good |-> <<128224>>],
    \* line 53: Refresh
    [bad |-> <<195, 402, 194, 176, 195, 8230, 194, 184, 195, 162, 226, 8218, 172, 194, 195, 162, 226, 8218, 172, 197, 190>>,
     good |-> <<128260>>],
    \* line 55: Copy
    [bad |-> <<195, 402, 194, 176, 195, 8230, 194, 184, 195, 162, 226, 8218, 172, 197, 34, 195, 162, 226, 8218, 172, 194, 185>>,
     good |-> <<128203>>],
    \* line 57: Share
    [bad |-> <<195, 402, 194, 176, 195, 8230, 194, 184, 195, 162, 226, 8218, 172, 197, 34, 195, 8218, 194, 164>>,
     good |-> <<128228>>],
    \* line 59: QR
    [bad |-> <<195, 402, 194, 176, 195, 8230, 194, 184, 195, 162, 226, 8218, 172, 197, 34, 195, 8218, 194, 183>>,
     good |-> <<128247>>],
    \* line 61: Mining pick
    [bad |-> <<195, 402, 194, 162, 195, 162, 226, 8218, 172, 194, 186, 195, 8218, 194, 195, 402, 194, 175, 195, 8218, 194, 184, 195, 8218, 194>>,
     good |-> <<9935, 65039>>],
    \* line 63: Rocket
    [bad |-> <<195, 402, 194, 176, 195, 8230, 194, 184, 195, 8230, 194, 161, 195, 162, 226, 8364, 353, 194, 172>>,
     good |-> <<128640>>],
    \* line 65: Stop
    [bad |-> <<195, 402, 194, 162, 195, 8218, 194, 195, 8218, 194, 185, 195, 402, 194, 175, 195, 8218, 194, 184, 195, 8218, 194>>,
     good |-> <<9209, 65039>>],
    \* line 67: Finger
    [bad |-> <<195, 402, 194, 176, 195, 8230, 194, 184, 195, 162, 226, 8218, 172, 203, 339, 195, 162, 226, 8218, 172, 194, 32>>,
     good |-> <<128070>>],
    \* line 69: Approx
    [bad |-> <<195, 402, 194, 162, 195, 162, 226, 8218, 172, 194, 176, 195, 8249, 226, 8364, 32>>,
     good |-> <<8776>>],
    \* line 71: Down arrow
    [bad |-> <<195, 402, 194, 162, 195, 162, 226, 8218, 172, 194, 161, 195, 162, 226, 8218, 172, 194, 166>>,
     good |-> <<8678>>],
    \* line 73: Bullet
    [bad |-> <<195, 402, 194, 162, 195, 162, 226, 8364, 353, 194, 172, 195, 8218, 194, 162>>,
     good |-> <<8226>>],
    \* line 75: Check
    [bad |-> <<195, 402, 194, 162, 195, 8230, 226, 8364, 339, 195, 162, 226, 8218, 172, 194, 166>>,
     good |-> <<9989>>],
    \* line 77: Home
    [bad |-> <<195, 402, 194, 176, 195, 8230, 194, 184, 195, 8218, 194, 195, 162, 226, 8364, 353, 194, 32>>,
     good |-> <<127968>>],
    \* line 79: Wrench
    [bad |-> <<195, 402, 194, 176, 195, 8230, 194, 184, 195, 162, 226, 8218, 172, 194, 195, 8218, 194, 167>>,
     good |-> <<128295>>],
    \* line 81: Link
    [bad |-> <<195, 402, 194, 176, 195, 8230, 194, 184, 195, 162, 226, 8218, 172, 194, 195, 8212>>,
     good |-> <<128279>>],
    \* line 83: Purple circle
    [bad |-> <<195, 402, 194, 176, 195, 8230, 194, 184, 195, 8230, 194, 184, 195, 8218, 194, 163>>,
     good |-> <<128995>>],
    \* line 85: World/apps
    [bad |-> <<195, 402, 194, 176, 195, 8230, 194, 184, 195, 8230, 226, 8364, 8482, 195, 8218, 194, 32>>,
     good |-> <<127760>>]
  >>

NumEntries == Len(replacements)

\* replacements.items() iterates in insertion order
DictOrder == [i \in 1..NumEntries |-> i]

\* does old occur in s at position i
OccursAt(s, old, i) ==
  /\ i + Len(old) - 1 <= Len(s)
  /\ \A j \in 1..Len(old) : s[i + j - 1] = old[j]

Occurs(s, old) == \E i \in 1..Len(s) : OccursAt(s, old, i)

\* start of the leftmost occurrence of old in s at or after position i,
\* 0 if there is none
Find(s, old, i) ==
  IF \E q \in i..Len(s) : OccursAt(s, old, q)
  THEN CHOOSE q \in i..Len(s) :
         OccursAt(s, old, q) /\ \A r \in i..(q - 1) : ~OccursAt(s, old, r)
  ELSE 0

\* str.replace(old, new): every non-overlapping occurrence, leftmost first
RECURSIVE ReplaceFrom(_, _, _, _)
ReplaceFrom(s, old, new, i) ==
  LET q == Find(s, old, i)
  IN  IF q = 0 THEN SubSeq(s, i, Len(s))
      ELSE SubSeq(s, i, q - 1) \o new
           \o ReplaceFrom(s, old, new, q + Len(old))

\* str.replace(old, new, 1): only the first occurrence
ReplaceFirst(s, old, new) ==
  LET q == Find(s, old, 1)
  IN  IF q = 0 THEN s
      ELSE SubSeq(s, 1, q - 1) \o new \o SubSeq(s, q + Len(old), Len(s))

StrReplace(s, old, new) == ReplaceFrom(s, old, new, 1)

\* the loop of lines 98-99 over the entries in the given order, from the
\* k-th entry of the order on
RECURSIVE ReplaceLoop(_, _, _)
ReplaceLoop(s, ord, k) ==
  IF k > Len(ord) THEN s
  ELSE LET t == StrReplace(s, replacements[ord[k]].bad,
                           replacements[ord[k]].good)
       IN  IF t = s THEN ReplaceLoop(s, ord, k + 1)
           ELSE ReplaceLoop(t, ord, k + 1)

\* the callback of re.sub as a function of the matched run
fix_remaining_mojibake(mojibake) ==
  IF Latin1Ok(mojibake) /\ Utf8Ok(Latin1Encode(mojibake))
  THEN Utf8Decode(Latin1Encode(mojibake))
  ELSE IF Cp1252Ok(mojibake) /\ Utf8Ok(Cp1252Encode(mojibake))
       THEN Utf8Decode(Cp1252Encode(mojibake))
       ELSE mojibake

\* a pattern that also starts at 'Â': r'[ÂÃ][^\s<>]{1,20}'
MatchAtAnyLead(s, p) ==
  /\ p + 1 <= Len(s)
  /\ s[p] \in {194, Marker}
  /\ InClass(s[p + 1])

\* pattern = r'Ã[^\s<>]{1,20}' matches at position p of s
MatchAt(s, p) ==
  /\ p + 1 <= Len(s)
  /\ s[p] = Marker
  /\ InClass(s[p + 1])

\* last position of the (greedy) match that starts at p
MatchEnd(s, p) ==
  CHOOSE e \in (p + 1)..(p + MaxRun) :
    /\ e <= Len(s)
    /\ \A j \in (p + 1)..e : InClass(s[j])
    /\ (e = p + MaxRun \/ e = Len(s) \/ ~InClass(s[e + 1]))

\* is there a match at or after position p
HasMatch(s, p) == \E q \in p..Len(s) : MatchAt(s, q)

\* start of the leftmost match at or after position p
NextMatch(s, p) ==
  CHOOSE q \in p..Len(s) :
    MatchAt(s, q) /\ \A r \in p..(q - 1) : ~MatchAt(s, r)

\* content.count('Ã')
CountMarker(s) == Cardinality({i \in 1..Len(s) : s[i] = Marker})

(***************************************************************************)
(* State.                                                                  *)
(***************************************************************************)
VARIABLES
  \* wallet/fix_encoding.py
  disk,          \* the text stored in index.html
  content,       \* the variable content
  pc,            \* position of the script
  order,         \* the order in which replacements.items() yields entries
  pos,           \* re.sub: position in content the scan has reached
  out,           \* re.sub: result accumulated so far
  calls,         \* re.sub: the matches handed to the callback so far
  wopen,         \* index.html was opened for writing in this run
  run,           \* number of the current run of the script
  \* fix_remaining_mojibake, statement by statement
  hpc,           \* position inside the callback
  mojibake,      \* match.group(0)
  fixed,         \* the value returned
  tried,         \* the encodings attempted so far
  \* public/wallet/fix_all_files.py
  bpc,           \* position of the script
  fidx,          \* index in files_to_fix of the file the loop is at
  files,         \* the text stored in each file of files_to_fix
  total_fixed,   \* the variable total_fixed
  before_count,  \* before_count as printed for each file
  after_count,   \* after_count as printed for each file
  outcome,       \* what the loop body did with each file
  reported       \* the total printed by the last statement

encVars == <<disk, content, pc, order, pos, out, calls, wopen, run>>
heurVars == <<hpc, mojibake, fixed, tried>>
batchVars == <<bpc, fidx, files, total_fixed, before_count, after_count,
               outcome, reported>>
vars == <<encVars, heurVars, batchVars>>

(***************************************************************************)
(* Texts the scripts are run on.                                           *)
(***************************************************************************)
\* fragments a content of index.html is put together from
Tokens ==
  << replacements[6].bad,        \* the key of the globe
     <<32>>,                     \* ' '; globe key + ' ' is the world key
     replacements[2].bad,        \* the key of the green circle
     <<195, 169>>,               \* 'Ã©', the UTF-8 bytes of 'é' as latin-1
     <<195, 402, 194, 169>>,     \* 'ÃƒÂ©', the same once more as cp1252
     <<195>>,                    \* 'Ã'
     <<60>>,                     \* '<'
     <<194, 169>>,               \* 'Â©'
     \* 'Ã©' eleven times: a run longer than the pattern takes
     <<195, 169, 195, 169, 195, 169, 195, 169, 195, 169, 195, 169,
       195, 169, 195, 169, 195, 169, 195, 169, 195, 169>> >>

RECURSIVE Flatten(_, _)
Flatten(ts, k) ==
  IF k > Len(ts) THEN << >> ELSE Tokens[ts[k]] \o Flatten(ts, k + 1)

TokenTexts(n) ==
  {Flatten(ts, 1) : ts \in UNION {[1..m -> 1..Len(Tokens)] : m \in 0..n}}

KeyTexts == {replacements[k].bad : k \in 1..NumEntries}

Inputs == TokenTexts(MaxTokens) \cup KeyTexts

\* the dict order with the i-th entry moved to the front
MoveToFront(i) ==
  [k \in 1..NumEntries |-> IF k = 1 THEN i ELSE IF k <= i THEN k - 1 ELSE k]

Orders == {MoveToFront(i) : i \in 1..NumEntries}

\* fragments handed to the callback: the marker and up to MaxFragLen more
FragChars == {195, 169, 402, 194, 97, 129, 128994}

Fragments ==
  {<<Marker>> \o f : f \in UNION {[1..m -> FragChars] : m \in 1..MaxFragLen}}

\* contents of the files of the batch, and results of ftfy.fix_text
BatchTexts == {<<97>>, <<195, 169>>, <<195, 169, 195, 97>>}
FixTexts == BatchTexts \cup {<<233>>, <<233, 195, 97>>}

IdleEnc ==
  /\ disk = << >> /\ content = << >> /\ pc = "idle" /\ order = DictOrder
  /\ pos = 1 /\ out = << >> /\ calls = << >> /\ wopen = FALSE /\ run = 0

IdleHeur ==
  /\ hpc = "idle" /\ mojibake = << >> /\ fixed = << >> /\ tried = << >>

IdleBatch ==
  /\ bpc = "idle" /\ fidx = 0 /\ files = << >> /\ total_fixed = 0
  /\ before_count = << >> /\ after_count = << >> /\ outcome = << >>
  /\ reported = 0

(***************************************************************************)
(* wallet/fix_encoding.py, lines 6-123.                                    *)
(***************************************************************************)
EncStart(text, ord) ==
  /\ disk = text /\ content = << >> /\ pc = "read" /\ order = ord
  /\ pos = 1 /\ out = << >> /\ calls = << >> /\ wopen = FALSE /\ run = 1

Init == (\E text \in Inputs : EncStart(text, DictOrder))
        /\ IdleHeur /\ IdleBatch

\* lines 6-7
Read ==
  /\ pc = "read"
  /\ content' = disk
  /\ pc' = "table"
  /\ UNCHANGED <<disk, order, pos, out, calls, wopen, run>>
  /\ UNCHANGED <<heurVars, batchVars>>

\* lines 98-99
ReplaceEntries ==
  /\ pc = "table"
  /\ content' = ReplaceLoop(content, order, 1)
  /\ pc' = "sub"
  /\ pos' = 1 /\ out' = << >> /\ calls' = << >>
  /\ UNCHANGED <<disk, order, wopen, run>>
  /\ UNCHANGED <<heurVars, batchVars>>

\* a substitution that loses the text between two matches
SubMatchDropsSkipped ==
  /\ pc = "sub"
  /\ HasMatch(content, pos)
  /\ LET p == NextMatch(content, pos)
         e == MatchEnd(content, p)
     IN  /\ out' = out \o fix_remaining_mojibake(SubSeq(content, p, e))
         /\ pos' = e + 1
         /\ calls' = Append(calls, [start |-> p, end |-> e])
  /\ UNCHANGED <<disk, content, pc, order, wopen, run>>
  /\ UNCHANGED <<heurVars, batchVars>>

\* line 119, re.sub: the next match is found, the callback is called on it
\* and its result is appended after the text skipped
SubMatch ==
  /\ pc = "sub"
  /\ HasMatch(content, pos)
  /\ LET p == NextMatch(content, pos)
         e == MatchEnd(content, p)
     IN  /\ out' = out \o SubSeq(content, pos, p - 1)
                       \o fix_remaining_mojibake(SubSeq(content, p, e))
         /\ pos' = e + 1
         /\ calls' = Append(calls, [start |-> p, end |-> e])
  /\ UNCHANGED <<disk, content, pc, order, wopen, run>>
  /\ UNCHANGED <<heurVars, batchVars>>

\* line 119, re.sub: no further match, the rest is copied and the result
\* is assigned to content
SubEnd ==
  /\ pc = "sub"
  /\ ~HasMatch(content, pos)
  /\ content' = out \o SubSeq(content, pos, Len(content))
  /\ pc' = "write"
  /\ UNCHANGED <<disk, order, pos, out, calls, wopen, run>>
  /\ UNCHANGED <<heurVars, batchVars>>

\* lines 122-123
Write ==
  /\ pc = "write"
  /\ wopen' = TRUE
  /\ disk' = content
  /\ pc' = "done"
  /\ UNCHANGED <<content, order, pos, out, calls, run>>
  /\ UNCHANGED <<heurVars, batchVars>>

\* the script is started again on the file it has written
Rerun ==
  /\ pc = "done"
  /\ run < MaxRuns
  /\ run' = run + 1
  /\ pc' = "read"
  /\ content' = << >> /\ pos' = 1 /\ out' = << >> /\ calls' = << >>
  /\ wopen' = FALSE
  /\ UNCHANGED <<disk, order>>
  /\ UNCHANGED <<heurVars, batchVars>>

Next == Read \/ ReplaceEntries \/ SubMatch \/ SubEnd \/ Write \/ Rerun

Spec == Init /\ [][Next]_vars

\* the same script with the entries of the table taken in another order
OrderInputs == TokenTexts(1) \cup KeyTexts

InitOrder == (\E text \in OrderInputs : \E ord \in Orders :
                 EncStart(text, ord))
             /\ IdleHeur /\ IdleBatch

SpecOrder == InitOrder /\ [][Next]_vars

(***************************************************************************)
(* fix_remaining_mojibake, lines 103-114, statement by statement.          *)
(***************************************************************************)
InitHeur ==
  /\ \E f \in Fragments :
       /\ mojibake = f /\ hpc = "try_latin1" /\ fixed = << >>
       /\ tried = << >>
  /\ IdleEnc /\ IdleBatch

\* lines 107-108: the first attempt succeeds
Latin1Returns ==
  /\ hpc = "try_latin1"
  /\ Latin1Ok(mojibake) /\ Utf8Ok(Latin1Encode(mojibake))
  /\ fixed' = Utf8Decode(Latin1Encode(mojibake))
  /\ tried' = Append(tried, "latin-1")
  /\ hpc' = "returned"
  /\ UNCHANGED <<mojibake, encVars, batchVars>>

\* the first attempt without its except clause: the error leaves the callback
Latin1RaisesUncaught ==
  /\ hpc = "try_latin1"
  /\ ~(Latin1Ok(mojibake) /\ Utf8Ok(Latin1Encode(mojibake)))
  /\ tried' = Append(tried, "latin-1")
  /\ hpc' = "raised"
  /\ UNCHANGED <<mojibake, fixed, encVars, batchVars>>

\* lines 107, 109: encode or decode raises, the except clause is entered
Latin1Raises ==
  /\ hpc = "try_latin1"
  /\ ~(Latin1Ok(mojibake) /\ Utf8Ok(Latin1Encode(mojibake)))
  /\ tried' = Append(tried, "latin-1")
  /\ hpc' = "try_cp1252"
  /\ UNCHANGED <<mojibake, fixed, encVars, batchVars>>

\* lines 111-112: the second attempt succeeds
Cp1252Returns ==
  /\ hpc = "try_cp1252"
  /\ Cp1252Ok(mojibake) /\ Utf8Ok(Cp1252Encode(mojibake))
  /\ fixed' = Utf8Decode(Cp1252Encode(mojibake))
  /\ tried' = Append(tried, "cp1252")
  /\ hpc' = "returned"
  /\ UNCHANGED <<mojibake, encVars, batchVars>>

\* lines 111, 113-114: encode or decode raises, the match is returned
Cp1252Raises ==
  /\ hpc = "try_cp1252"
  /\ ~(Cp1252Ok(mojibake) /\ Utf8Ok(Cp1252Encode(mojibake)))
  /\ fixed' = mojibake
  /\ tried' = Append(tried, "cp1252")
  /\ hpc' = "returned"
  /\ UNCHANGED <<mojibake, encVars, batchVars>>

NextHeur == Latin1Returns \/ Latin1Raises \/ Cp1252Returns \/ Cp1252Raises

SpecHeur == InitHeur /\ [][NextHeur]_vars

(***************************************************************************)
(* public/wallet/fix_all_files.py, lines 6-34.  One action is one pass of  *)
(* the loop body; which one depends on what open, read, ftfy.fix_text and  *)
(* write do, which the script does not control.                            *)
(***************************************************************************)
FileIds == 1..NumFiles

InitBatch ==
  /\ files \in [FileIds -> BatchTexts]
  /\ bpc = "loop" /\ fidx = 1 /\ total_fixed = 0
  /\ before_count = [i \in FileIds |-> 0]
  /\ after_count = [i \in FileIds |-> 0]
  /\ outcome = [i \in FileIds |-> "pending"]
  /\ reported = 0
  /\ IdleEnc /\ IdleHeur

\* the loop body without its try: the error ends the script
ReadFailsAborts ==
  /\ bpc = "loop" /\ fidx <= NumFiles
  /\ outcome' = [outcome EXCEPT ![fidx] = "error"]
  /\ bpc' = "crashed"
  /\ UNCHANGED <<fidx, files, total_fixed, before_count, after_count,
                 reported>>
  /\ UNCHANGED <<encVars, heurVars>>

\* lines 12-13 raise (the file cannot be opened or is not UTF-8);
\* lines 31-32 print the error
ReadFails ==
  /\ bpc = "loop" /\ fidx <= NumFiles
  /\ outcome' = [outcome EXCEPT ![fidx] = "error"]
  /\ fidx' = fidx + 1
  /\ UNCHANGED <<bpc, files, total_fixed, before_count, after_count,
                 reported>>
  /\ UNCHANGED <<encVars, heurVars>>

\* line 19 raises; line 16 has run; lines 31-32 print the error
FixRaises ==
  /\ bpc = "loop" /\ fidx <= NumFiles
  /\ outcome' = [outcome EXCEPT ![fidx] = "error"]
  /\ fidx' = fidx + 1
  /\ UNCHANGED <<bpc, files, total_fixed, before_count, after_count,
                 reported>>
  /\ UNCHANGED <<encVars, heurVars>>

\* lines 12-24 with before_count = 0: nothing is printed or written
SkipFile ==
  /\ bpc = "loop" /\ fidx <= NumFiles
  /\ CountMarker(files[fidx]) = 0
  /\ outcome' = [outcome EXCEPT ![fidx] = "skipped"]
  /\ fidx' = fidx + 1
  /\ UNCHANGED <<bpc, files, total_fixed, before_count, after_count,
                 reported>>
  /\ UNCHANGED <<encVars, heurVars>>

\* lines 12-30 with before_count > 0 and a write that succeeds
Rewrite ==
  /\ bpc = "loop" /\ fidx <= NumFiles
  /\ CountMarker(files[fidx]) > 0
  /\ \E fixed_content \in FixTexts :
       /\ before_count' =
            [before_count EXCEPT ![fidx] = CountMarker(files[fidx])]
       /\ after_count' =
            [after_count EXCEPT ![fidx] = CountMarker(fixed_content)]
       /\ total_fixed' = total_fixed + (CountMarker(files[fidx])
                                        - CountMarker(fixed_content))
       /\ files' = [files EXCEPT ![fidx] = fixed_content]
  /\ outcome' = [outcome EXCEPT ![fidx] = "rewritten"]
  /\ fidx' = fidx + 1
  /\ UNCHANGED <<bpc, reported>>
  /\ UNCHANGED <<encVars, heurVars>>

\* lines 12-30 with before_count > 0 and line 29 or 30 raising: the file
\* is left as it was when open raises and truncated when write raises;
\* lines 31-32 print the error
WriteFails ==
  /\ bpc = "loop" /\ fidx <= NumFiles
  /\ CountMarker(files[fidx]) > 0
  /\ \E fixed_content \in FixTexts :
       /\ before_count' =
            [before_count EXCEPT ![fidx] = CountMarker(files[fidx])]
       /\ after_count' =
            [after_count EXCEPT ![fidx] = CountMarker(fixed_content)]
       /\ total_fixed' = total_fixed + (CountMarker(files[fidx])
                                        - CountMarker(fixed_content))
  /\ \E left \in {files[fidx], << >>} :
       files' = [files EXCEPT ![fidx] = left]
  /\ outcome' = [outcome EXCEPT ![fidx] = "error"]
  /\ fidx' = fidx + 1
  /\ UNCHANGED <<bpc, reported>>
  /\ UNCHANGED <<encVars, heurVars>>

\* line 34
Report ==
  /\ bpc = "loop" /\ fidx > NumFiles
  /\ reported' = total_fixed
  /\ bpc' = "done"
  /\ UNCHANGED <<fidx, files, total_fixed, before_count, after_count,
                 outcome>>
  /\ UNCHANGED <<encVars, heurVars>>

NextBatch ==
  ReadFails \/ FixRaises \/ SkipFile \/ Rewrite \/ WriteFails \/ Report

SpecBatch == InitBatch /\ [][NextBatch]_vars

\* the interpreter runs the script on to its last statement
LiveBatch == SpecBatch /\ WF_vars(NextBatch)

(***************************************************************************)
(* Properties.                                                             *)
(***************************************************************************)

\* C1: running the repair on its own output yields that output: a second
\* run of the script leaves the file as the first run wrote it.
Idempotence == [][run >= 2 => disk' = disk]_vars

\* C2: a file that consists of exactly one key of the table is repaired to
\* exactly the value of that key.
KeyRepairedToValue ==
  (pc = "write" /\ run = 1) =>
    \A k \in 1..NumEntries :
      disk = replacements[k].bad => content = replacements[k].good

\* a text with no occurrence of a key and no marker
Clean(s) ==
  /\ CountMarker(s) = 0
  /\ \A k \in 1..NumEntries : ~Occurs(s, replacements[k].bad)

\* C3: the repair of a text that contains no key of the table and no marker
\* is that text, character for character.
CleanNoOp == (pc = "write" /\ Clean(disk)) => content = disk

\* a clean text with non-ASCII characters and a '<' in it has been repaired
CleanNoOpWitness ==
  /\ pc = "write" /\ Clean(disk) /\ Len(disk) >= 3
  /\ \E i \in 1..Len(disk) : disk[i] = 194
  /\ \E i \in 1..Len(disk) : disk[i] = 60

\* C4: the callback never raises; it tries latin-1 first and cp1252 only
\* after latin-1 failed, and returns the re-decoded text of the first
\* attempt that succeeds, or the match itself when both fail.
HeuristicSafety ==
  /\ hpc # "raised"
  /\ hpc = "try_cp1252" => tried = <<"latin-1">>
  /\ hpc = "returned" =>
       \/ /\ tried = <<"latin-1">>
          /\ Latin1Ok(mojibake) /\ Utf8Ok(Latin1Encode(mojibake))
          /\ fixed = Utf8Decode(Latin1Encode(mojibake))
       \/ /\ tried = <<"latin-1", "cp1252">>
          /\ ~(Latin1Ok(mojibake) /\ Utf8Ok(Latin1Encode(mojibake)))
          /\ Cp1252Ok(mojibake) /\ Utf8Ok(Cp1252Encode(mojibake))
          /\ fixed = Utf8Decode(Cp1252Encode(mojibake))
       \/ /\ tried = <<"latin-1", "cp1252">>
          /\ ~(Latin1Ok(mojibake) /\ Utf8Ok(Latin1Encode(mojibake)))
          /\ ~(Cp1252Ok(mojibake) /\ Utf8Ok(Cp1252Encode(mojibake)))
          /\ fixed = mojibake

\* latin-1 failed and the cp1252 attempt re-decoded the match
HeuristicSafetyWitness ==
  /\ hpc = "returned" /\ tried = <<"latin-1", "cp1252">>
  /\ fixed # mojibake

\* C5: a file whose content has no marker is not opened for writing.
MarkerFreeNotOpened == [][CountMarker(disk) = 0 => (wopen' => wopen)]_vars

\* C6: once a file has failed, the loop still goes through every later
\* file and the total is printed.
BatchContinuation ==
  (\E i \in FileIds : outcome[i] = "error")
    ~> (bpc = "done" /\ \A j \in FileIds : outcome[j] # "pending")

\* the total was printed after a file failed and a later one was rewritten
BatchContinuationWitness ==
  /\ bpc = "done"
  /\ \E i, j \in FileIds :
       i < j /\ outcome[i] = "error" /\ outcome[j] = "rewritten"

RECURSIVE SumRewritten(_)
SumRewritten(i) ==
  IF i = 0 THEN 0
  ELSE SumRewritten(i - 1)
       + (IF outcome[i] = "rewritten"
          THEN before_count[i] - after_count[i] ELSE 0)

\* C7: the after-count printed for a rewritten file is the number of
\* markers in what was written, and the total printed is the sum of before
\* minus after over the files that were rewritten.
TotalFixedMetric ==
  bpc = "done" =>
    /\ \A i \in FileIds :
         outcome[i] = "rewritten" => after_count[i] = CountMarker(files[i])
    /\ reported = SumRewritten(NumFiles)

\* is a a substring of b
Substring(a, b) == Occurs(b, a)

\* C8: no key of the table is a substring of another key with a different
\* value, and the table pass gives the same text in whatever order the
\* entries are applied.
OrderIndependence ==
  pc = "sub" =>
    /\ content = ReplaceLoop(disk, DictOrder, 1)
    /\ \A i, j \in 1..NumEntries :
         (i # j /\ Substring(replacements[i].bad, replacements[j].bad))
           => replacements[i].good = replacements[j].good

\* C9: after the table pass no key of the table occurs in the text.
NoKeyLeft ==
  pc = "sub" => \A k \in 1..NumEntries : ~Occurs(content, replacements[k].bad)

\* the table pass has run on a text with one key twice and another key
NoKeyLeftWitness ==
  /\ pc = "sub" /\ run = 1
  /\ \E i, j \in 1..Len(disk) :
       /\ i < j
       /\ OccursAt(disk, replacements[6].bad, i)
       /\ OccursAt(disk, replacements[6].bad, j)
  /\ Occurs(disk, replacements[2].bad)

\* the runs handed to the callback are the marker followed by 1 to 20
\* class characters, in order and disjoint
RunsValid(s, cs) ==
  /\ \A k \in 1..Len(cs) :
       /\ 1 <= cs[k].start /\ cs[k].end <= Len(s)
       /\ s[cs[k].start] = Marker
       /\ cs[k].end - cs[k].start \in 1..20
       /\ \A j \in (cs[k].start + 1)..cs[k].end :
            ~IsSpace(s[j]) /\ s[j] # 60 /\ s[j] # 62
  /\ \A k \in 1..(Len(cs) - 1) : cs[k].end < cs[k + 1].start

\* every place a run could start at lies in one of the runs
RunsLeftmost(s, cs) ==
  \A q \in 1..(Len(s) - 1) :
    (s[q] = Marker /\ ~IsSpace(s[q + 1]) /\ s[q + 1] # 60 /\ s[q + 1] # 62)
      => \E k \in 1..Len(cs) : cs[k].start <= q /\ q <= cs[k].end

\* s from position from on, with each run from the k-th on replaced by
\* what the callback returns for it
RECURSIVE Assemble(_, _, _, _)
Assemble(s, cs, k, from) ==
  IF k > Len(cs) THEN SubSeq(s, from, Len(s))
  ELSE SubSeq(s, from, cs[k].start - 1)
       \o fix_remaining_mojibake(SubSeq(s, cs[k].start, cs[k].end))
       \o Assemble(s, cs, k + 1, cs[k].end + 1)

\* C10: the residual pass replaces disjoint leftmost runs of the marker and
\* 1 to 20 class characters by what the callback returns for each, once,
\* and copies every other character.
SingleScan ==
  [][(pc = "sub" /\ pc' = "write") =>
       /\ RunsValid(content, calls)
       /\ RunsLeftmost(content, calls)
       /\ content' = Assemble(content, calls, 1, 1)]_vars

\* two runs with text between them were replaced and the result still has
\* a run in it
SingleScanWitness ==
  /\ pc = "write" /\ Len(calls) >= 2
  /\ calls[2].start > calls[1].end + 1
  /\ HasMatch(content, 1)
=============================================================================
